---- MODULE Spec2Model ----
(***************************************************************************)
(* The OpenID Connect grant handlers of aioauth                            *)
(* (aioauth/oidc/core/grant_type.py): the issue phase                      *)
(* (create_token_response) of the authorization_code and the password      *)
(* grant, run by concurrently handled requests against one shared storage. *)
(* Every storage call is awaited, so every storage call is one step and    *)
(* the steps of different requests interleave freely.                      *)
(*                                                                         *)
(* The validation phase, the dispatcher (AuthorizationServer) and the      *)
(* storage are collaborators whose code is outside the source tree; they   *)
(* are modelled from the specification (sections 4.1, 4.3, 6 and 7).       *)
(***************************************************************************)
EXTENDS Integers, Sequences, FiniteSets, Bags, TLC

VARIABLES
    codes,               \* storage: the authorization codes still stored
    tokens,              \* storage: the bag of Tokens created so far
    req,                 \* req[r]: the request r (read-only input)
    pc,                  \* pc[r]: where the handling of request r stands
    scope,               \* scope[h]: self.scope of the handler instance h
    token,               \* token[r]: local `token` of create_token_response
    authorization_code,  \* authorization_code[r]: local `authorization_code`
    id_token,            \* id_token[r]: local `id_token`
    result,              \* result[r]: what the handler call ended with
    response,            \* response[r]: the TokenResponse returned, if any
    outcome,             \* outcome[r]: what the caller of r observes
    generated,           \* how many token strings generate_token has produced
    calls                \* calls[r]: the storage calls made for r, in order

vars == <<codes, tokens, req, pc, scope, token, authorization_code, id_token,
          result, response, outcome, generated, calls>>

----------------------------------------------------------------------------
(* Bounds *)

\* Number of requests handled concurrently.
NumRequests == 2

Reqs == 1..NumRequests

----------------------------------------------------------------------------
(* Values *)

\* Python's None, for string-valued attributes.
None == "None"

Clients == {"clientA", "clientB"}

\* The AuthorizationCode entities created by the authorization endpoint
\* before the token requests arrive.
AuthorizationCodes ==
    { [code |-> "code1", client_id |-> "clientA", nonce |-> "abc123",
       scope |-> "read write"],
      [code |-> "code2", client_id |-> "clientB", nonce |-> "xyz",
       scope |-> "openid"] }

CodeValues == { ac.code : ac \in AuthorizationCodes }

\* The grant types registered with the server.
DEFAULT_GRANT_TYPES ==
    {"authorization_code", "client_credentials", "password", "refresh_token"}

\* Failures that are OAuth2Error-kind protocol errors.
OAuth2Errors ==
    {"InvalidRequestError", "InvalidGrantError", "UnsupportedGrantTypeError"}

\* Token lifetimes the storage stamps on the Tokens it creates.
TOKEN_EXPIRES_IN == 86400
REFRESH_TOKEN_EXPIRES_IN == 172800

\* Request r as the transport hands it to the core.  `via` tells who calls
\* the handler: the server's dispatcher, or a caller that constructs the
\* handler and calls create_token_response directly.
AuthorizationCodeRequests(r) ==
    { [grant_type |-> "authorization_code", via |-> "server", client_id |-> c,
       code |-> k, credentials_ok |-> TRUE, scope |-> None,
       redirect_uri |-> "https://example.com/cb" \o ToString(r)] :
       c \in Clients, k \in CodeValues \cup {None} }

PasswordRequests(r) ==
    { [grant_type |-> "password", via |-> "server", client_id |-> c,
       code |-> None, credentials_ok |-> ok, scope |-> "scope" \o ToString(r),
       redirect_uri |-> "https://example.com/cb" \o ToString(r)] :
       c \in Clients, ok \in BOOLEAN }

DirectRequests(r) ==
    { [grant_type |-> g, via |-> "direct", client_id |-> "clientA",
       code |-> "code1", credentials_ok |-> TRUE, scope |-> None,
       redirect_uri |-> "https://example.com/cb" \o ToString(r)] :
       g \in {"authorization_code", "password"} }

UnsupportedRequests(r) ==
    { [grant_type |-> "implicit", via |-> "server", client_id |-> "clientA",
       code |-> None, credentials_ok |-> TRUE, scope |-> None,
       redirect_uri |-> "https://example.com/cb" \o ToString(r)] }

Requests(r) ==
    AuthorizationCodeRequests(r) \cup PasswordRequests(r)
        \cup DirectRequests(r) \cup UnsupportedRequests(r)

----------------------------------------------------------------------------
(* Collaborators *)

\* generate_token(length): a random string of the given length.  The strings
\* are drawn with cryptographically strong randomness, so the n-th string
\* generated differs from all generated before it.
generate_token(length, n) == [len |-> length, nth |-> n]

\* storage.create_token: the Token the storage builds and stores.
create_token(client_id, sc, access_token, refresh_token) ==
    [access_token |-> access_token,
     refresh_token |-> refresh_token,
     expires_in |-> TOKEN_EXPIRES_IN,
     refresh_token_expires_in |-> REFRESH_TOKEN_EXPIRES_IN,
     scope |-> sc,
     token_type |-> "Bearer",
     client_id |-> client_id]

\* storage.get_authorization_code: <<the code>> or <<>> when absent.
get_authorization_code(stored, client_id, code) ==
    LET found == { ac \in AuthorizationCodes :
                     /\ ac.code \in stored
                     /\ ac.code = code
                     /\ ac.client_id = client_id }
    IN  IF found = {} THEN <<>> ELSE <<CHOOSE ac \in found : TRUE>>

\* storage.delete_authorization_code: idempotent removal.
delete_authorization_code(stored, client_id, code) ==
    stored \ { ac.code : ac \in { a \in AuthorizationCodes :
                                    a.code = code /\ a.client_id = client_id } }

\* storage.get_id_token: the identity token, bound to what it was asked for.
get_id_token(client_id, nonce, redirect_uri, response_type, sc) ==
    [client_id |-> client_id, nonce |-> nonce, redirect_uri |-> redirect_uri,
     response_type |-> response_type, scope |-> sc]

\* What the caller observes when the handling of a request ends with `res`:
\* the dispatcher turns OAuth2Error-kind failures into an error response and
\* lets everything else propagate; a direct caller sees the exception.
Observe(via, res) ==
    IF res = "TokenResponse" THEN "token_response"
    ELSE IF via = "server" /\ res \in OAuth2Errors THEN "error_response"
    ELSE "fatal"

\* The handler instance that serves request r: the registry holds handler
\* classes and every request gets an instance of its own.
HandlerOf(r) == r

\* Record of one storage call, made in phase "validate" or "issue".
Call(phase, op, client_id, code, nonce, redirect_uri, response_type, sc, tok) ==
    [phase |-> phase, op |-> op, client_id |-> client_id, code |-> code,
     nonce |-> nonce, redirect_uri |-> redirect_uri,
     response_type |-> response_type, scope |-> sc, token |-> tok]

----------------------------------------------------------------------------
(* The issue phase, statement by statement *)

AuthorizationCodeSteps_DeleteBeforeIdToken ==
    <<"create_token", "get_authorization_code", "delete_authorization_code",
      "get_id_token", "return">>

AuthorizationCodeSteps_LookupBeforeMint ==
    <<"get_authorization_code", "create_token", "get_id_token",
      "delete_authorization_code", "return">>

AuthorizationCodeSteps_NoDelete ==
    <<"create_token", "get_authorization_code", "get_id_token", "return">>

\* The awaited storage calls of
\* AuthorizationCodeGrantType.create_token_response, in program order.
AuthorizationCodeSteps ==
    <<"create_token", "get_authorization_code", "get_id_token",
      "delete_authorization_code", "return">>

\* The awaited storage calls of PasswordGrantType.create_token_response.
PasswordSteps == <<"create_token", "get_id_token", "return">>

StepsOf(grant_type) ==
    IF grant_type = "authorization_code" THEN AuthorizationCodeSteps
    ELSE PasswordSteps

\* The statement that follows `step` in the handler of `grant_type`.
StepAfter(grant_type, step) ==
    LET steps == StepsOf(grant_type)
        i == CHOOSE k \in 1..Len(steps) : steps[k] = step
    IN  steps[i + 1]

SelfScope_SharedAcrossInstances(r) == scope[1]

\* `self.scope`: the attribute of the handler instance serving request r.
SelfScope(r) == scope[HandlerOf(r)]

\* `raise RuntimeError("validate_request() must be called first")`.
ScopeUnsetFailure == "RuntimeError"

MissingCodeFailure_InvalidGrant == "InvalidGrantError"

\* What a failing `assert authorization_code is not None` raises.
MissingCodeFailure == "AssertionError"

AuthorizationCodeIsNone_Never(ac) == FALSE

\* `authorization_code is not None` fails: the storage returned no code.
AuthorizationCodeIsNone(ac) == ac = <<>>

AuthorizationCodeScopeUnset_Never(sc) == FALSE

\* `if self.scope is None` of AuthorizationCodeGrantType.
AuthorizationCodeScopeUnset(sc) == sc = None

PasswordScopeUnset_Never(sc) == FALSE

\* `if self.scope is None` of PasswordGrantType.
PasswordScopeUnset(sc) == sc = None

ACCESS_TOKEN_LENGTH_Short == 42 - 12

\* `generate_token(42)`: the length asked for the access token.
ACCESS_TOKEN_LENGTH == 42

\* `generate_token(48)`: the length asked for the refresh token.
REFRESH_TOKEN_LENGTH == 48

RequestQueryRedirectUri_FromPost(r) == "https://example.com/cb-post"

\* `request.query.redirect_uri`.
RequestQueryRedirectUri(r) == req[r].redirect_uri

AuthorizationCodeNonce_Absent(ac) == None

\* `nonce=authorization_code.nonce` of AuthorizationCodeGrantType.
AuthorizationCodeNonce(ac) == ac.nonce

PasswordNonce_FromStoredCode ==
    (CHOOSE ac \in AuthorizationCodes : TRUE).nonce

\* `nonce=None` of PasswordGrantType.
PasswordNonce == None

TokenResponse_RefreshAsAccess(t, idt) ==
    [access_token |-> t.refresh_token,
     expires_in |-> t.expires_in,
     id_token |-> idt,
     refresh_token |-> t.refresh_token,
     refresh_token_expires_in |-> t.refresh_token_expires_in,
     scope |-> t.scope,
     token_type |-> t.token_type]

\* `TokenResponse(access_token=token.access_token, ..., id_token=id_token)`.
TokenResponse(t, idt) ==
    [access_token |-> t.access_token,
     expires_in |-> t.expires_in,
     id_token |-> idt,
     refresh_token |-> t.refresh_token,
     refresh_token_expires_in |-> t.refresh_token_expires_in,
     scope |-> t.scope,
     token_type |-> t.token_type]

----------------------------------------------------------------------------
(* Initial state *)

\* A server request waits for the dispatcher; a direct caller has
\* constructed the handler and calls create_token_response at once.
Init ==
    /\ codes = CodeValues
    /\ tokens = EmptyBag
    /\ req \in { f \in [Reqs -> UNION { Requests(r) : r \in Reqs }] :
                   \A r \in Reqs : f[r] \in Requests(r) }
    /\ pc = [r \in Reqs |-> IF req[r].via = "server" THEN "dispatch"
                            ELSE StepsOf(req[r].grant_type)[1]]
    /\ scope = [r \in Reqs |-> None]
    /\ token = [r \in Reqs |-> <<>>]
    /\ authorization_code = [r \in Reqs |-> <<>>]
    /\ id_token = [r \in Reqs |-> <<>>]
    /\ result = [r \in Reqs |-> None]
    /\ response = [r \in Reqs |-> <<>>]
    /\ outcome = [r \in Reqs |-> None]
    /\ generated = 0
    /\ calls = [r \in Reqs |-> <<>>]

\* The handling of r ends with `res` (an exception, or "TokenResponse").
End(r, res) ==
    /\ pc' = [pc EXCEPT ![r] = "done"]
    /\ result' = [result EXCEPT ![r] = res]
    /\ outcome' = [outcome EXCEPT ![r] = Observe(req[r].via, res)]

\* The handling of r goes on with the next statement of its handler.
Goto(r, step) ==
    /\ pc' = [pc EXCEPT ![r] = step]
    /\ UNCHANGED <<result, outcome>>

Record(r, call) == calls' = [calls EXCEPT ![r] = Append(@, call)]

----------------------------------------------------------------------------
(* Dispatcher and validation phase *)

Dispatch_SkipValidate(r) ==
    /\ pc[r] = "dispatch"
    /\ IF req[r].grant_type \notin DEFAULT_GRANT_TYPES
       THEN End(r, "UnsupportedGrantTypeError")
       ELSE Goto(r, StepsOf(req[r].grant_type)[1])
    /\ UNCHANGED <<codes, tokens, req, scope, token, authorization_code,
                   id_token, response, generated, calls>>

\* AuthorizationServer.create_token_response: resolve the grant type; an
\* unknown one fails with UnsupportedGrantTypeError, else a handler instance
\* is constructed for this request (scope unset) and validated first.
Dispatch(r) ==
    /\ pc[r] = "dispatch"
    /\ IF req[r].grant_type \notin DEFAULT_GRANT_TYPES
       THEN End(r, "UnsupportedGrantTypeError")
       ELSE Goto(r, "validate")
    /\ UNCHANGED <<codes, tokens, req, scope, token, authorization_code,
                   id_token, response, generated, calls>>

\* validate of the authorization_code grant: the code must be present in the
\* request and stored for this client; records the code's scope.  On
\* success the dispatcher goes on to call create_token_response.
ValidateAuthorizationCode(r) ==
    /\ pc[r] = "validate"
    /\ req[r].grant_type = "authorization_code"
    /\ IF req[r].code = None
       THEN /\ End(r, "InvalidRequestError")
            /\ UNCHANGED <<scope, calls>>
       ELSE LET ac == get_authorization_code(codes, req[r].client_id, req[r].code)
            IN  /\ Record(r, Call("validate", "get_authorization_code",
                                  req[r].client_id, req[r].code, None, None,
                                  None, None, <<>>))
                /\ IF ac = <<>>
                   THEN /\ End(r, "InvalidGrantError")
                        /\ UNCHANGED scope
                   ELSE /\ scope' = [scope EXCEPT ![HandlerOf(r)] = ac[1].scope]
                        /\ Goto(r, StepsOf(req[r].grant_type)[1])
    /\ UNCHANGED <<codes, tokens, req, token, authorization_code, id_token,
                   response, generated>>

\* validate of the password grant: the resource owner's credentials must be
\* valid; records the requested scope.  On success the dispatcher goes on to
\* call create_token_response.
ValidatePassword(r) ==
    /\ pc[r] = "validate"
    /\ req[r].grant_type = "password"
    /\ IF ~req[r].credentials_ok
       THEN /\ End(r, "InvalidGrantError")
            /\ UNCHANGED scope
       ELSE /\ scope' = [scope EXCEPT ![HandlerOf(r)] = req[r].scope]
            /\ Goto(r, StepsOf(req[r].grant_type)[1])
    /\ UNCHANGED <<codes, tokens, req, token, authorization_code, id_token,
                   response, generated, calls>>

----------------------------------------------------------------------------
(* AuthorizationCodeGrantType.create_token_response *)

AuthorizationCodeCreateToken_GuardAfterCreate(r) ==
    /\ pc[r] = "create_token"
    /\ req[r].grant_type = "authorization_code"
    /\ LET t == create_token(req[r].client_id, SelfScope(r),
                             generate_token(ACCESS_TOKEN_LENGTH,
                                            generated + 1),
                             generate_token(REFRESH_TOKEN_LENGTH,
                                            generated + 2))
       IN  /\ tokens' = tokens (+) SetToBag({t})
           /\ generated' = generated + 2
           /\ token' = [token EXCEPT ![r] = <<t>>]
           /\ Record(r, Call("issue", "create_token", req[r].client_id,
                             None, None, None, None, SelfScope(r), <<t>>))
           /\ IF AuthorizationCodeScopeUnset(SelfScope(r))
              THEN End(r, ScopeUnsetFailure)
              ELSE Goto(r, StepAfter(req[r].grant_type, "create_token"))
    /\ UNCHANGED <<codes, req, scope, authorization_code, id_token, response>>

\* The scope guard, then `await self.storage.create_token(...)`.
AuthorizationCodeCreateToken(r) ==
    /\ pc[r] = "create_token"
    /\ req[r].grant_type = "authorization_code"
    /\ IF AuthorizationCodeScopeUnset(SelfScope(r))
       THEN /\ End(r, ScopeUnsetFailure)
            /\ UNCHANGED <<tokens, token, generated, calls>>
       ELSE LET t == create_token(req[r].client_id, SelfScope(r),
                                  generate_token(ACCESS_TOKEN_LENGTH,
                                                 generated + 1),
                                  generate_token(REFRESH_TOKEN_LENGTH,
                                                 generated + 2))
            IN  /\ tokens' = tokens (+) SetToBag({t})
                /\ generated' = generated + 2
                /\ token' = [token EXCEPT ![r] = <<t>>]
                /\ Record(r, Call("issue", "create_token", req[r].client_id,
                                  None, None, None, None,
                                  SelfScope(r), <<t>>))
                /\ Goto(r, StepAfter(req[r].grant_type, "create_token"))
    /\ UNCHANGED <<codes, req, scope, authorization_code, id_token, response>>

\* `assert request.post.code is not None`, then
\* `await self.storage.get_authorization_code(...)`, then
\* `assert authorization_code is not None`.
AuthorizationCodeGetAuthorizationCode(r) ==
    /\ pc[r] = "get_authorization_code"
    /\ req[r].grant_type = "authorization_code"
    /\ IF req[r].code = None
       THEN /\ End(r, MissingCodeFailure)
            /\ UNCHANGED <<authorization_code, calls>>
       ELSE LET ac == get_authorization_code(codes, req[r].client_id, req[r].code)
            IN  /\ Record(r, Call("issue", "get_authorization_code",
                                  req[r].client_id, req[r].code, None, None,
                                  None, None, <<>>))
                /\ authorization_code' = [authorization_code EXCEPT ![r] = ac]
                /\ IF AuthorizationCodeIsNone(ac)
                   THEN End(r, MissingCodeFailure)
                   ELSE Goto(r, StepAfter(req[r].grant_type,
                                          "get_authorization_code"))
    /\ UNCHANGED <<codes, tokens, req, scope, token, id_token, response,
                   generated>>

\* `await self.storage.get_id_token(nonce=authorization_code.nonce, ...)`;
\* the storage may fail.
AuthorizationCodeGetIdToken(r) ==
    /\ pc[r] = "get_id_token"
    /\ req[r].grant_type = "authorization_code"
    /\ LET nonce == AuthorizationCodeNonce(authorization_code[r][1])
       IN  /\ Record(r, Call("issue", "get_id_token", req[r].client_id, None,
                             nonce, RequestQueryRedirectUri(r), "code",
                             SelfScope(r), <<>>))
           /\ \E ok \in BOOLEAN :
                IF ok
                THEN /\ id_token' = [id_token EXCEPT ![r] =
                            <<get_id_token(req[r].client_id, nonce,
                                           RequestQueryRedirectUri(r), "code",
                                           SelfScope(r))>>]
                     /\ Goto(r, StepAfter(req[r].grant_type, "get_id_token"))
                ELSE /\ End(r, "StorageError")
                     /\ UNCHANGED id_token
    /\ UNCHANGED <<codes, tokens, req, scope, token, authorization_code,
                   response, generated>>

\* `await self.storage.delete_authorization_code(...)`.
AuthorizationCodeDeleteAuthorizationCode(r) ==
    /\ pc[r] = "delete_authorization_code"
    /\ req[r].grant_type = "authorization_code"
    /\ codes' = delete_authorization_code(codes, req[r].client_id, req[r].code)
    /\ Record(r, Call("issue", "delete_authorization_code", req[r].client_id,
                      req[r].code, None, None, None, None, <<>>))
    /\ Goto(r, StepAfter(req[r].grant_type, "delete_authorization_code"))
    /\ UNCHANGED <<tokens, req, scope, token, authorization_code, id_token,
                   response, generated>>

\* `return TokenResponse(...)`.
AuthorizationCodeReturn(r) ==
    /\ pc[r] = "return"
    /\ req[r].grant_type = "authorization_code"
    /\ response' = [response EXCEPT ![r] =
            <<TokenResponse(token[r][1], id_token[r][1])>>]
    /\ End(r, "TokenResponse")
    /\ UNCHANGED <<codes, tokens, req, scope, token, authorization_code,
                   id_token, generated, calls>>

----------------------------------------------------------------------------
(* PasswordGrantType.create_token_response *)

\* The scope guard, then `await self.storage.create_token(...)`.
PasswordCreateToken(r) ==
    /\ pc[r] = "create_token"
    /\ req[r].grant_type = "password"
    /\ IF PasswordScopeUnset(SelfScope(r))
       THEN /\ End(r, ScopeUnsetFailure)
            /\ UNCHANGED <<tokens, token, generated, calls>>
       ELSE LET t == create_token(req[r].client_id, SelfScope(r),
                                  generate_token(ACCESS_TOKEN_LENGTH,
                                                 generated + 1),
                                  generate_token(REFRESH_TOKEN_LENGTH,
                                                 generated + 2))
            IN  /\ tokens' = tokens (+) SetToBag({t})
                /\ generated' = generated + 2
                /\ token' = [token EXCEPT ![r] = <<t>>]
                /\ Record(r, Call("issue", "create_token", req[r].client_id,
                                  None, None, None, None,
                                  SelfScope(r), <<t>>))
                /\ Goto(r, StepAfter(req[r].grant_type, "create_token"))
    /\ UNCHANGED <<codes, req, scope, authorization_code, id_token, response>>

\* `await self.storage.get_id_token(nonce=None, ...)`; the storage may fail.
PasswordGetIdToken(r) ==
    /\ pc[r] = "get_id_token"
    /\ req[r].grant_type = "password"
    /\ Record(r, Call("issue", "get_id_token", req[r].client_id, None,
                      PasswordNonce, RequestQueryRedirectUri(r), "code",
                      SelfScope(r), <<>>))
    /\ \E ok \in BOOLEAN :
        IF ok
        THEN /\ id_token' = [id_token EXCEPT ![r] =
                    <<get_id_token(req[r].client_id, PasswordNonce,
                                   RequestQueryRedirectUri(r), "code",
                                   SelfScope(r))>>]
             /\ Goto(r, StepAfter(req[r].grant_type, "get_id_token"))
        ELSE /\ End(r, "StorageError")
             /\ UNCHANGED id_token
    /\ UNCHANGED <<codes, tokens, req, scope, token, authorization_code,
                   response, generated>>

\* `return TokenResponse(...)`.
PasswordReturn(r) ==
    /\ pc[r] = "return"
    /\ req[r].grant_type = "password"
    /\ response' = [response EXCEPT ![r] =
            <<TokenResponse(token[r][1], id_token[r][1])>>]
    /\ End(r, "TokenResponse")
    /\ UNCHANGED <<codes, tokens, req, scope, token, authorization_code,
                   id_token, generated, calls>>

----------------------------------------------------------------------------
(* Specification *)

Next ==
    \E r \in Reqs :
        \/ Dispatch(r)
        \/ ValidateAuthorizationCode(r)
        \/ ValidatePassword(r)
        \/ AuthorizationCodeCreateToken(r)
        \/ AuthorizationCodeGetAuthorizationCode(r)
        \/ AuthorizationCodeGetIdToken(r)
        \/ AuthorizationCodeDeleteAuthorizationCode(r)
        \/ AuthorizationCodeReturn(r)
        \/ PasswordCreateToken(r)
        \/ PasswordGetIdToken(r)
        \/ PasswordReturn(r)

Spec == Init /\ [][Next]_vars

----------------------------------------------------------------------------
(* Vocabulary of the properties *)

IsAuthorizationCode(r) == req[r].grant_type = "authorization_code"
IsPassword(r) == req[r].grant_type = "password"

\* The storage calls request r made in its issue phase, and their names.
IssueCalls(r) == SelectSeq(calls[r], LAMBDA c : c.phase = "issue")
Ops(cs) == [i \in 1..Len(cs) |-> cs[i].op]
IsPrefix(s, t) == Len(s) <= Len(t) /\ \A i \in 1..Len(s) : s[i] = t[i]

\* The AuthorizationCode entities a request's (client, code) pair names.
CodeOf(r) ==
    { ac \in AuthorizationCodes :
        ac.code = req[r].code /\ ac.client_id = req[r].client_id }

\* r and q are token requests redeeming the same authorization code.
SameRedemption(r, q) ==
    /\ r # q
    /\ IsAuthorizationCode(r) /\ IsAuthorizationCode(q)
    /\ req[r].via = "server" /\ req[q].via = "server"
    /\ req[r].code = req[q].code
    /\ req[r].client_id = req[q].client_id
    /\ CodeOf(r) # {}

\* Request q has redeemed its code: its issue returned a TokenResponse.
Redeemed(q) == IsAuthorizationCode(q) /\ result[q] = "TokenResponse"

\* The scope a successful validate of request r records (None when its
\* validate cannot succeed).
ValidatedScope(r) ==
    IF IsAuthorizationCode(r)
    THEN IF CodeOf(r) = {} THEN None
         ELSE (CHOOSE ac \in CodeOf(r) : TRUE).scope
    ELSE IF IsPassword(r) /\ req[r].credentials_ok THEN req[r].scope
    ELSE None

----------------------------------------------------------------------------
(* Properties *)

\* C1: at-most-once redemption under concurrency.  When two requests that
\* redeem the same stored authorization code have both finished (no storage
\* failure), exactly one ended with a TokenResponse and the other with
\* InvalidGrantError.
C1_AtMostOnceRedemption ==
    \A r, q \in Reqs :
        ( /\ SameRedemption(r, q)
          /\ pc[r] = "done" /\ pc[q] = "done"
          /\ result[r] # "StorageError" /\ result[q] # "StorageError" )
        => \/ result[r] = "TokenResponse" /\ result[q] = "InvalidGrantError"
           \/ result[q] = "TokenResponse" /\ result[r] = "InvalidGrantError"

\* The double redemption behind C1: no two requests both receive a
\* TokenResponse for the same authorization code.
AtMostOneTokenResponsePerCode ==
    \A r, q \in Reqs : SameRedemption(r, q) => ~(Redeemed(r) /\ Redeemed(q))

\* C2: validate-before-issue.  A step of create_token_response taken while
\* the handler's scope is unset ends the call with RuntimeError and without
\* a TokenResponse, for the authorization_code and the password handler.
C2_ValidateBeforeIssue ==
    [][\A r \in Reqs :
          ( /\ pc[r] = "create_token"
            /\ scope[HandlerOf(r)] = None
            /\ pc'[r] # pc[r] )
          => /\ pc'[r] = "done"
             /\ result'[r] = "RuntimeError"
             /\ response'[r] = <<>>
             /\ outcome'[r] # "token_response"]_vars

C2_Witness ==
    \E r, q \in Reqs :
        /\ IsAuthorizationCode(r) /\ IsPassword(q)
        /\ req[r].via = "direct" /\ req[q].via = "direct"
        /\ result[r] = "RuntimeError" /\ result[q] = "RuntimeError"

\* C3: sequential single use.  Once a redemption of code C has returned a
\* TokenResponse, C is absent from storage, and every validation of another
\* redemption of C that takes place from then on fails with
\* InvalidGrantError and yields no TokenResponse.
C3_SequentialSingleUse ==
    /\ [](\A q \in Reqs : Redeemed(q) => req[q].code \notin codes)
    /\ [][\A r, q \in Reqs :
            ( /\ r # q
              /\ Redeemed(q)
              /\ IsAuthorizationCode(r)
              /\ req[r].code = req[q].code
              /\ pc[r] = "validate"
              /\ pc'[r] # "validate" )
            => /\ pc'[r] = "done"
               /\ result'[r] = "InvalidGrantError"
               /\ response'[r] = <<>>]_vars

C3_Witness ==
    \E r, q \in Reqs :
        /\ SameRedemption(r, q)
        /\ Redeemed(q)
        /\ result[r] = "InvalidGrantError"
        /\ req[q].code \notin codes

\* C4: nonce binding.  Every get_id_token call of an authorization_code
\* issue carries the nonce of the AuthorizationCode the issue re-fetched,
\* which is the code stored for the request's client and code value.
C4_NonceBinding ==
    \A r \in Reqs : IsAuthorizationCode(r) =>
        \A i \in DOMAIN calls[r] : calls[r][i].op = "get_id_token" =>
            /\ authorization_code[r] # <<>>
            /\ authorization_code[r][1] \in CodeOf(r)
            /\ calls[r][i].nonce = authorization_code[r][1].nonce
            /\ \A ac \in CodeOf(r) : calls[r][i].nonce = ac.nonce

C4_Witness ==
    \E r, q \in Reqs :
        /\ Redeemed(r) /\ Redeemed(q)
        /\ req[r].code = "code1" /\ req[q].code = "code2"
        /\ response[r][1].id_token.nonce = "abc123"
        /\ response[q][1].id_token.nonce = "xyz"

\* C5: password grant issue.  A password issue calls create_token, then
\* get_id_token with nonce None, and only then returns; it makes no other
\* storage call, and no step of a password request changes the stored
\* authorization codes.
C5_PasswordGrantIssue ==
    /\ [](\A r \in Reqs : IsPassword(r) =>
            /\ IsPrefix(Ops(calls[r]), <<"create_token", "get_id_token">>)
            /\ \A i \in DOMAIN calls[r] :
                 calls[r][i].op = "get_id_token" => calls[r][i].nonce = None
            /\ response[r] # <<>> =>
                 /\ Ops(calls[r]) = <<"create_token", "get_id_token">>
                 /\ response[r][1].id_token.nonce = None)
    /\ [][\A r \in Reqs :
            (IsPassword(r) /\ pc'[r] # pc[r]) => codes' = codes]_vars

C5_Witness ==
    \E r \in Reqs :
        /\ IsPassword(r)
        /\ result[r] = "TokenResponse"
        /\ Len(calls[r]) = 2

\* The issue of r stopped at the scope guard / at the absent re-fetched code.
GuardFailed(r) ==
    /\ req[r].via = "direct"
    /\ pc[r] = "done"
    /\ calls[r] = <<>>

RefetchFailed(r) ==
    /\ pc[r] = "done"
    /\ IssueCalls(r) # <<>>
    /\ IssueCalls(r)[Len(IssueCalls(r))].op = "get_authorization_code"
    /\ authorization_code[r] = <<>>

\* C6: contract/defect errors are fatal.  A failure of issue at the scope
\* guard or at the absent re-fetched code is not an OAuth2Error-kind
\* failure, yields no error response and no TokenResponse, and propagates.
C6_DefectErrorsAreFatal ==
    \A r \in Reqs : (GuardFailed(r) \/ RefetchFailed(r)) =>
        /\ result[r] \notin OAuth2Errors
        /\ outcome[r] = "fatal"
        /\ response[r] = <<>>

C6_Witness ==
    \E r \in Reqs :
        /\ req[r].via = "server" /\ RefetchFailed(r)
        /\ result[r] = "AssertionError" /\ outcome[r] = "fatal"

IssueSteps ==
    {"create_token", "get_authorization_code", "get_id_token",
     "delete_authorization_code", "return"}

\* C7: the dispatcher's two-phase protocol.  A dispatched request is in its
\* issue phase only with the scope its validate recorded; an unregistered
\* grant type ends with UnsupportedGrantTypeError before any validate or
\* issue; a request ended by a protocol error has made no issue call,
\* minted no token and deleted no code.
C7_TwoPhaseProtocol ==
    \A r \in Reqs : req[r].via = "server" =>
        /\ (pc[r] \in IssueSteps \/ IssueCalls(r) # <<>> \/ token[r] # <<>>)
              => /\ scope[HandlerOf(r)] # None
                 /\ scope[HandlerOf(r)] = ValidatedScope(r)
        /\ result[r] # "RuntimeError"
        /\ (req[r].grant_type \notin DEFAULT_GRANT_TYPES /\ pc[r] # "dispatch")
              => /\ pc[r] = "done"
                 /\ result[r] = "UnsupportedGrantTypeError"
                 /\ calls[r] = <<>>
                 /\ scope[HandlerOf(r)] = None
        /\ result[r] \in OAuth2Errors
              => /\ IssueCalls(r) = <<>>
                 /\ token[r] = <<>>
                 /\ response[r] = <<>>
                 /\ scope[HandlerOf(r)] = None

C7_Witness ==
    \E r, q \in Reqs :
        /\ req[r].via = "server" /\ req[q].via = "server"
        /\ result[r] = "UnsupportedGrantTypeError"
        /\ result[q] = "TokenResponse"

\* C8: token response shape.  Every TokenResponse carries the identity token
\* its issue's get_id_token call returned and the fields of the Token its
\* issue's create_token call returned.
C8_TokenResponseShape ==
    \A r \in Reqs : response[r] # <<>> =>
        \E i, j \in DOMAIN calls[r] :
            /\ calls[r][i].phase = "issue" /\ calls[r][i].op = "create_token"
            /\ calls[r][j].phase = "issue" /\ calls[r][j].op = "get_id_token"
            /\ LET t == calls[r][i].token[1]
                   g == calls[r][j]
                   resp == response[r][1]
               IN  /\ BagIn(t, tokens)
                   /\ resp.id_token = get_id_token(g.client_id, g.nonce,
                          g.redirect_uri, g.response_type, g.scope)
                   /\ resp.access_token = t.access_token
                   /\ resp.refresh_token = t.refresh_token
                   /\ resp.expires_in = t.expires_in
                   /\ resp.refresh_token_expires_in = t.refresh_token_expires_in
                   /\ resp.scope = t.scope
                   /\ resp.token_type = t.token_type

C8_Witness ==
    \E r, q \in Reqs :
        /\ IsAuthorizationCode(r) /\ IsPassword(q)
        /\ response[r] # <<>> /\ response[q] # <<>>
        /\ response[r][1].access_token # response[q][1].access_token

\* C9: per-request handler state.  The scope a request's issue passes to
\* create_token and to get_id_token is the scope its own validate recorded,
\* whatever other requests are handled at the same time.
C9_PerRequestHandlerState ==
    \A r \in Reqs : \A i \in DOMAIN calls[r] :
        calls[r][i].op \in {"create_token", "get_id_token"}
            => calls[r][i].scope = ValidatedScope(r)

C9_Witness ==
    \E r, q \in Reqs :
        /\ r # q
        /\ pc[r] = "get_id_token" /\ pc[q] = "get_id_token"
        /\ ValidatedScope(r) # ValidatedScope(q)
        /\ calls[r][Len(calls[r])].scope # calls[q][Len(calls[q])].scope

\* C10: order of the storage calls of an authorization_code issue:
\* create_token, get_authorization_code, get_id_token,
\* delete_authorization_code, once each, and the TokenResponse only after
\* all four.
C10_StorageCallOrder ==
    \A r \in Reqs : IsAuthorizationCode(r) =>
        LET ops == Ops(IssueCalls(r))
            order == <<"create_token", "get_authorization_code",
                       "get_id_token", "delete_authorization_code">>
        IN  /\ IsPrefix(ops, order)
            /\ (pc[r] = "return" \/ response[r] # <<>>) => ops = order

C10_Witness ==
    \E r \in Reqs :
        /\ Redeemed(r)
        /\ Len(IssueCalls(r)) = 4
        /\ response[r] # <<>>

\* C11: missing code at re-fetch.  When get_authorization_code returns no
\* code during an authorization_code issue, the issue stops there with an
\* assertion failure: it returns no TokenResponse and calls neither
\* get_id_token nor delete_authorization_code.
C11_MissingCodeAtRefetch ==
    /\ [](\A r \in Reqs : RefetchFailed(r) =>
            /\ result[r] = "AssertionError"
            /\ response[r] = <<>>
            /\ id_token[r] = <<>>
            /\ outcome[r] # "token_response"
            /\ Ops(IssueCalls(r)) = <<"create_token", "get_authorization_code">>)
    /\ [][\A r \in Reqs :
            ( /\ IsAuthorizationCode(r)
              /\ pc[r] = "get_authorization_code"
              /\ pc'[r] # pc[r]
              /\ get_authorization_code(codes, req[r].client_id,
                                        req[r].code) = <<>> )
            => /\ pc'[r] = "done"
               /\ result'[r] = "AssertionError"
               /\ response'[r] = <<>>
               /\ codes' = codes]_vars

C11_Witness ==
    \E r, q \in Reqs :
        /\ SameRedemption(r, q)
        /\ RefetchFailed(r)
        /\ Redeemed(q)
        /\ req[r].code \notin codes

\* The calls of request r's issue phase to the storage operation `op`.
IssueCallsTo(r, op) == SelectSeq(IssueCalls(r), LAMBDA c : c.op = op)

\* C12: delete on the success path.  An authorization_code issue that
\* returns a TokenResponse has called delete_authorization_code exactly
\* once before returning, for the (client_id, code) pair of its request,
\* the code value being the one it passed to get_authorization_code.
C12_DeleteOnSuccessPath ==
    \A r \in Reqs : (IsAuthorizationCode(r) /\ response[r] # <<>>) =>
        LET deleted == IssueCallsTo(r, "delete_authorization_code")
            fetched == IssueCallsTo(r, "get_authorization_code")
        IN  /\ Len(deleted) = 1
            /\ Len(fetched) = 1
            /\ deleted[1].client_id = req[r].client_id
            /\ deleted[1].code = req[r].code
            /\ deleted[1].code = fetched[1].code
            /\ deleted[1].client_id = fetched[1].client_id
            /\ deleted[1].code = authorization_code[r][1].code

C12_Witness ==
    \E r \in Reqs :
        /\ Redeemed(r)
        /\ req[r].code = "code2"
        /\ IssueCallsTo(r, "delete_authorization_code")[1].code = "code2"
        /\ codes = {"code1"}

\* C13: scope discipline.  No step of an issue changes a handler's scope;
\* the scope an issue passes to create_token and to get_id_token is the
\* scope a successful validate recorded on its handler, never the unset
\* scope the guard rejects.
C13_ScopeDiscipline ==
    /\ [](\A r \in Reqs : \A i \in DOMAIN calls[r] :
            ( /\ calls[r][i].phase = "issue"
              /\ calls[r][i].op \in {"create_token", "get_id_token"} )
            => /\ calls[r][i].scope # None
               /\ calls[r][i].scope = scope[HandlerOf(r)]
               /\ scope[HandlerOf(r)] = ValidatedScope(r))
    /\ [][\A r \in Reqs :
            (pc[r] \in IssueSteps /\ pc'[r] # pc[r]) => scope' = scope]_vars

C13_Witness ==
    \E r, q \in Reqs :
        /\ IsAuthorizationCode(r) /\ IsPassword(q)
        /\ pc[r] = "done" /\ pc[q] = "done"
        /\ Len(IssueCallsTo(r, "get_id_token")) = 1
        /\ Len(IssueCallsTo(q, "get_id_token")) = 1
        /\ scope[HandlerOf(r)] = "read write"
        /\ scope[HandlerOf(q)] = req[q].scope

\* C14: identity-token request arguments.  In both handlers get_id_token is
\* called with the client_id of the client served, the redirect_uri of the
\* request's query parameters, response_type "code" and the validated
\* scope, and for the client the access token of the same issue was minted
\* for.
C14_IdTokenArguments ==
    \A r \in Reqs :
        LET asked == IssueCallsTo(r, "get_id_token")
            minted == IssueCallsTo(r, "create_token")
        IN  \A i \in DOMAIN asked :
                /\ asked[i].client_id = req[r].client_id
                /\ asked[i].redirect_uri = req[r].redirect_uri
                /\ asked[i].response_type = "code"
                /\ asked[i].scope = ValidatedScope(r)
                /\ Len(minted) = 1
                /\ asked[i].client_id = minted[1].client_id
                /\ asked[i].client_id = minted[1].token[1].client_id

C14_Witness ==
    \E r, q \in Reqs :
        /\ IsAuthorizationCode(r) /\ IsPassword(q)
        /\ req[r].client_id # req[q].client_id
        /\ id_token[r] # <<>> /\ id_token[q] # <<>>
        /\ id_token[r][1].client_id = req[r].client_id
        /\ id_token[q][1].client_id = req[q].client_id
        /\ id_token[r][1].redirect_uri # id_token[q][1].redirect_uri

\* The token strings handed to storage.create_token so far, by any request.
MintedTokens ==
    UNION { { calls[r][i].token[1] :
                i \in { k \in DOMAIN calls[r] :
                          calls[r][k].op = "create_token" } } : r \in Reqs }

C16_GuardFailureHasNoEffect ==
    [][\A r \in Reqs :
          ( /\ pc[r] = "create_token"
            /\ scope[HandlerOf(r)] = None
            /\ pc'[r] # pc[r] )
          => /\ tokens' = tokens
             /\ codes' = codes
             /\ generated' = generated
             /\ calls' = calls
             /\ token' = token
             /\ authorization_code' = authorization_code
             /\ id_token' = id_token
             /\ scope' = scope]_vars

C16_Witness ==
    \E r \in Reqs :
        /\ GuardFailed(r)
        /\ result[r] = "RuntimeError"
        /\ token[r] = <<>>
        /\ tokens = EmptyBag
        /\ codes = CodeValues
        /\ generated = 0

\* The requests that redeem the same (client, code) pair as r and have
\* minted a Token / received a TokenResponse.
MintedFor(r) ==
    { q \in Reqs : /\ IsAuthorizationCode(q)
                   /\ CodeOf(q) = CodeOf(r)
                   /\ token[q] # <<>> }

RespondedFor(r) ==
    { q \in Reqs : Redeemed(q) /\ CodeOf(q) = CodeOf(r) }

\* C17: mint precedes lookup.  When an authorization_code issue re-fetches
\* the code it has already called create_token, so an issue that aborts
\* because the code is absent has minted a Token that stays stored; no step
\* removes a stored Token, and a code never has more TokenResponses than
\* Tokens minted for it.
C17_MintPrecedesLookup ==
    /\ [](\A r \in Reqs : IsAuthorizationCode(r) =>
            /\ IssueCallsTo(r, "get_authorization_code") # <<>> =>
                 /\ IssueCalls(r)[1].op = "create_token"
                 /\ token[r] # <<>>
                 /\ BagIn(token[r][1], tokens)
            /\ RefetchFailed(r) =>
                 /\ token[r] # <<>>
                 /\ BagIn(token[r][1], tokens)
                 /\ response[r] = <<>>
            /\ Cardinality(RespondedFor(r)) <= Cardinality(MintedFor(r)))
    /\ [][tokens \sqsubseteq tokens']_vars

C17_Witness ==
    \E r, q \in Reqs :
        /\ SameRedemption(r, q)
        /\ pc[r] = "done" /\ pc[q] = "done"
        /\ RefetchFailed(r)
        /\ BagIn(token[r][1], tokens)
        /\ Cardinality(MintedFor(r)) = 2
        /\ Cardinality(RespondedFor(r)) = 1

\* The get_id_token call of r's authorization_code issue failed.
IdTokenFailed(r) == IsAuthorizationCode(r) /\ result[r] = "StorageError"

\* C18: failed identity-token issuance keeps the code.  An
\* authorization_code issue whose get_id_token call fails ends there: it
\* returns no TokenResponse, never calls delete_authorization_code and
\* leaves the stored codes as they are, and a request that validates the
\* code afterwards, while it is still stored, is admitted to redeem it.
C18_FailedIdTokenKeepsCode ==
    /\ [](\A r \in Reqs : IdTokenFailed(r) =>
            /\ pc[r] = "done"
            /\ response[r] = <<>>
            /\ id_token[r] = <<>>
            /\ outcome[r] = "fatal"
            /\ IssueCallsTo(r, "delete_authorization_code") = <<>>
            /\ Ops(IssueCalls(r)) =
                 <<"create_token", "get_authorization_code", "get_id_token">>)
    /\ [][\A r \in Reqs :
            ( /\ IsAuthorizationCode(r)
              /\ pc[r] = "get_id_token"
              /\ pc'[r] = "done" )
            => /\ result'[r] = "StorageError"
               /\ codes' = codes]_vars
    /\ [][\A r, q \in Reqs :
            ( /\ SameRedemption(r, q)
              /\ IdTokenFailed(r)
              /\ req[r].code \in codes
              /\ pc[q] = "validate"
              /\ pc'[q] # pc[q] )
            => /\ pc'[q] = "create_token"
               /\ scope'[HandlerOf(q)] = ValidatedScope(q)]_vars

C18_Witness ==
    \E r, q \in Reqs :
        /\ SameRedemption(r, q)
        /\ IdTokenFailed(r)
        /\ Redeemed(q)
        /\ token[q][1].access_token.nth > token[r][1].refresh_token.nth
        /\ req[q].code \notin codes

\* The literal reading of C18 under concurrency: the code of a request
\* whose get_id_token failed is in storage.  Another request that validated
\* the same code before may delete it, so this does not hold.
FailedIdTokenCodeStored ==
    \A r \in Reqs : IdTokenFailed(r) => req[r].code \in codes

====
